---- MODULE Spec2Model ----
(***************************************************************************)
(* Availability-and-pricing engine of dias_gulfstream: RoomService         *)
(* (checkAvailability, calculatePrice, getOccupiedDates, getRoomsInfo) on  *)
(* top of BitrixClient (getDealsByMonth, getRoomsFromFields,              *)
(* createBooking), and the POST booking/create handler of index.js, whose  *)
(* requests interleave at their awaits.                                    *)
(*                                                                         *)
(* Dates.  A date string "YYYY-MM-DD" is the number of its day; NoDate is  *)
(* an empty or absent date.  A JavaScript Date is the number of hours      *)
(* since the UTC midnight that starts day 0.  The model calendar has       *)
(* months of MonthLen days each, day 1 being the first day of              *)
(* month 1; a (year, month) pair of the code is the number of the month.   *)
(* The dates of deals and requests are the days around the boundary        *)
(* between month 1 and month 2.                                            *)
(* Room ids are numbers, NoRoom an absent (null, undefined) id.            *)
(***************************************************************************)
EXTENDS Integers, Sequences, FiniteSets, TLC

\* ---- bounds of the model ----
MonthLen == 3
MaxDeals == 2
MaxStay == 2
MaxNights == 3

\* ---- program constants ----
TzOffsetHours == 5
HoursPerDay == 24

NoDate == 0
NoRoom == 0
Days == (MonthLen - 2)..(MonthLen + 2)
RequestMonths == {1, 2}

\* Room-type field codes: STD is UF_CRM_DEAL_1750132990506, LUX is
\* UF_CRM_DEAL_1750133047593, UNK a field code that is not in the catalog,
\* NoType an absent room type.  occupancyMultiplier is in tenths (12 is 1.2).
NoType == "none"
roomTypes ==
    [STD |-> [basePrice |-> 5000, occupancyMultiplier |-> 12],
     LUX |-> [basePrice |-> 10000, occupancyMultiplier |-> 13]]

\* ---- JavaScript Date conversions ----
ParseDate(d) == d * HoursPerDay
LocalDay(ts) == (ts + TzOffsetHours) \div HoursPerDay
LocalMidnight(d) == d * HoursPerDay - TzOffsetHours
ToISODate(ts) == ts \div HoursPerDay
MonthOfDay(d) == ((d - 1) \div MonthLen) + 1
GetMonth(ts) == MonthOfDay(LocalDay(ts))
FirstDayOfMonth(m) == (m - 1) * MonthLen + 1
LastDayOfMonth(m) == m * MonthLen

VARIABLES
    crm,      \* the deals the CRM holds, in the order crm.deal.list returns them
    call,     \* the last invocation: operation and arguments
    response, \* what the CRM answered to the batch requests of that invocation
    outcome,  \* what the invocation returned or threw
    fetches,  \* the months getDealsByMonth was asked for by that invocation
    logs,     \* the origins passed to logMessage by that invocation
    requests, \* the booking/create requests in progress, one per client
    contacts  \* the phones of the contacts the CRM holds, in order of creation

vars == <<crm, call, response, outcome, fetches, logs, requests, contacts>>

\* ---- BitrixClient.getRoomsFromFields ----
\* The keys of a JavaScript object whose keys are integer-like: ascending
\* numeric order, whatever the order of insertion.
RECURSIVE SortAscending(_)
SortAscending(S) ==
    IF S = {} THEN <<>>
    ELSE LET lo == CHOOSE x \in S : \A y \in S : x <= y
         IN <<lo>> \o SortAscending(S \ {lo})

ObjectKeys(obj) == SortAscending(DOMAIN obj)

RoomName(id) == 100 + id

\* rooms[item.ID] = item.VALUE for each LIST item; a field that is not a
\* deal field fails.
getRoomsFromFields(categoryField, list) ==
    IF categoryField = NoType
      THEN [ok |-> FALSE, error |-> "Category field is required", rooms |-> <<>>]
    ELSE IF categoryField \notin DOMAIN roomTypes
      THEN [ok |-> FALSE, error |-> "Field not found in deal fields", rooms |-> <<>>]
    ELSE [ok |-> TRUE, error |-> "",
          rooms |-> [id \in {list[i] : i \in 1..Len(list)} |-> RoomName(id)]]

\* ---- BitrixClient.getDealsByMonth ----
startDateStr(month) == ToISODate(LocalMidnight(FirstDayOfMonth(month)))
endDateStr(month) == ToISODate(LocalMidnight(LastDayOfMonth(month)))

\* filter[>=UF_CRM_1749509439624]=startDateStr & filter[<=UF_CRM_1749787453685]=endDateStr
InFilter(deal, month) ==
    /\ deal.UF_CRM_1749509439624 # NoDate => deal.UF_CRM_1749509439624 >= startDateStr(month)
    /\ deal.UF_CRM_1749787453685 # NoDate => deal.UF_CRM_1749787453685 <= endDateStr(month)

\* select[]=ID, both dates, the category field and COMMENTS
Select(deal, categoryField) ==
    [ID |-> deal.ID,
     UF_CRM_1749509439624 |-> deal.UF_CRM_1749509439624,
     UF_CRM_1749787453685 |-> deal.UF_CRM_1749787453685,
     room |-> IF categoryField \in DOMAIN deal THEN deal[categoryField] ELSE NoRoom,
     COMMENTS |-> deal.COMMENTS]

RECURSIVE DealList(_, _, _)
DealList(deals, month, categoryField) ==
    IF deals = <<>> THEN <<>>
    ELSE IF InFilter(Head(deals), month)
      THEN <<Select(Head(deals), categoryField)>> \o DealList(Tail(deals), month, categoryField)
      ELSE DealList(Tail(deals), month, categoryField)

\* The sub-queries of the batch: alias :> the category field it selects.
Commands(categoryField) ==
    IF categoryField # NoType
      THEN [category |-> categoryField]
      ELSE [standard |-> "STD", lux |-> "LUX"]

\* The answer of the CRM to the batch: resp.kind is "ok", "http" (status not
\* ok), "error" (data.error set), "format" (no result.result), "errList"
\* (result_error a non-empty list) or "errMap" (result_error a map keyed by
\* alias); resp.failed is the set of aliases whose sub-query failed.  With
\* halt=0 the sub-queries that did not fail are in result.result.
BatchResult(deals, month, categoryField, resp) ==
    LET cmds == Commands(categoryField)
        live == IF resp.kind \in {"errList", "errMap"}
                  THEN DOMAIN cmds \ resp.failed ELSE DOMAIN cmds
    IN [alias \in live |-> DealList(deals, month, cmds[alias])]

getDealsByMonth(month, categoryField, resp, deals) ==
    LET result == BatchResult(deals, month, categoryField, resp)
        none == [k \in {} |-> <<>>]
    IN IF resp.kind = "http"
         THEN [ok |-> FALSE, error |-> "HTTP error", value |-> none]
       ELSE IF resp.kind = "error"
         THEN [ok |-> FALSE, error |-> "Batch request failed", value |-> none]
       ELSE IF resp.kind = "format"
         THEN [ok |-> FALSE, error |-> "Invalid batch response format", value |-> none]
       \* result_error.length > 0: a map has no length
       ELSE IF resp.kind = "errList" /\ resp.failed # {}
         THEN [ok |-> FALSE, error |-> "Batch request errors", value |-> none]
       ELSE IF categoryField # NoType
         THEN [ok |-> TRUE, error |-> "",
               value |-> [k \in {categoryField} |->
                   [deals |-> IF "category" \in DOMAIN result
                                THEN result["category"] ELSE <<>>]]]
       ELSE [ok |-> TRUE, error |-> "",
             value |-> [k \in {IF a = "standard" THEN "STD" ELSE "LUX" : a \in DOMAIN result} |->
                 [deals |-> result[IF k = "STD" THEN "standard" ELSE "lux"]]]]

\* ---- RoomService ----
\* An Invalid Date (new Date(undefined)): every comparison with it is false.
NaN == -1
NewDate(obj, field) ==
    IF field \in DOMAIN obj /\ obj[field] # NoDate THEN ParseDate(obj[field]) ELSE NaN
Lt(a, b) == a # NaN /\ b # NaN /\ a < b
Le(a, b) == a # NaN /\ b # NaN /\ a <= b

\* The overlap expression with the day of check-out counted as occupied.
OverlapInclusive(checkInDate, checkOutDate, dealCheckIn, dealCheckOut) ==
    \/ (Le(dealCheckIn, checkInDate) /\ Le(checkInDate, dealCheckOut))
    \/ (Lt(dealCheckIn, checkOutDate) /\ Le(checkOutDate, dealCheckOut))
    \/ (Le(checkInDate, dealCheckIn) /\ Le(dealCheckOut, checkOutDate))

\* The overlap expression of checkAvailability and getOccupiedDates.
Overlap(checkInDate, checkOutDate, dealCheckIn, dealCheckOut) ==
    \/ (Le(dealCheckIn, checkInDate) /\ Lt(checkInDate, dealCheckOut))
    \/ (Lt(dealCheckIn, checkOutDate) /\ Le(checkOutDate, dealCheckOut))
    \/ (Le(checkInDate, dealCheckIn) /\ Le(dealCheckOut, checkOutDate))

Thrown(msg, months, origins) ==
    [kind |-> "error", wrapper |-> "", error |-> msg, value |-> <<>>,
     fetches |-> months, logs |-> origins]
Returned(v, months) ==
    [kind |-> "value", wrapper |-> "", error |-> "", value |-> v,
     fetches |-> months, logs |-> <<>>]

\* isFree without the test of the deal's room: any overlapping deal of the
\* category makes the room busy.
isFreeAnyRoom(rId, categoryDeals, checkInDate, checkOutDate) ==
    ~ \E i \in 1..Len(categoryDeals) :
        LET deal == categoryDeals[i]
        IN /\ deal.UF_CRM_1749509439624 # NoDate
           /\ deal.UF_CRM_1749787453685 # NoDate
           /\ Overlap(checkInDate, checkOutDate,
                      NewDate(deal, "UF_CRM_1749509439624"),
                      NewDate(deal, "UF_CRM_1749787453685"))

\* The inner loop of checkAvailability: no deal of room rId with both dates
\* overlaps the request.
isFree(rId, categoryDeals, checkInDate, checkOutDate) ==
    ~ \E i \in 1..Len(categoryDeals) :
        LET deal == categoryDeals[i]
        IN /\ deal.UF_CRM_1749509439624 # NoDate
           /\ deal.UF_CRM_1749787453685 # NoDate
           /\ deal.room = rId
           /\ Overlap(checkInDate, checkOutDate,
                      NewDate(deal, "UF_CRM_1749509439624"),
                      NewDate(deal, "UF_CRM_1749787453685"))

\* The outer loop: the first room of roomsToCheck that is free.
RECURSIVE FirstFree(_, _, _, _)
FirstFree(roomsToCheck, categoryDeals, checkInDate, checkOutDate) ==
    IF roomsToCheck = <<>> THEN [available |-> FALSE, roomId |-> NoRoom]
    ELSE IF isFree(Head(roomsToCheck), categoryDeals, checkInDate, checkOutDate)
      THEN [available |-> TRUE, roomId |-> Head(roomsToCheck)]
      ELSE FirstFree(Tail(roomsToCheck), categoryDeals, checkInDate, checkOutDate)

checkAvailability(roomId, roomType, checkIn, checkOut, resp, deals, list) ==
    IF roomType = NoType \/ checkIn = NoDate \/ checkOut = NoDate
      THEN Thrown("Missing required parameters", <<>>, <<"RoomService.checkAvailability">>)
    ELSE
      LET checkInDate == ParseDate(checkIn)
          checkOutDate == ParseDate(checkOut)
          month == GetMonth(checkInDate)
          fetched == getDealsByMonth(month, roomType, resp, deals)
          roomsList == getRoomsFromFields(roomType, list)
      IN IF ~ fetched.ok
           THEN Thrown(fetched.error, <<month>>,
                       <<"BitrixClient.getDealsByMonth", "RoomService.checkAvailability">>)
         ELSE IF roomType \notin DOMAIN fetched.value
           THEN Thrown("Invalid deals response or category not found", <<month>>,
                       <<"RoomService.checkAvailability">>)
         ELSE IF roomId = NoRoom /\ ~ roomsList.ok
           THEN Thrown(roomsList.error, <<month>>,
                       <<"BitrixClient.getRoomsFromFields", "RoomService.checkAvailability">>)
         ELSE Returned(FirstFree(IF roomId # NoRoom THEN <<roomId>>
                                                    ELSE ObjectKeys(roomsList.rooms),
                                 fetched.value[roomType].deals,
                                 checkInDate, checkOutDate),
                       <<month>>)

\* The answer to the n-th batch request of an invocation: resp.at is the
\* request that gets resp, every other request is answered without error.
Ok == [kind |-> "ok", failed |-> {}, at |-> 1]
Answer(resp, n) == IF resp.at = n THEN resp ELSE Ok

\* roomTypeData.deals.filter(deal => deal[roomType] === roomId)
RECURSIVE roomDeals(_, _)
roomDeals(deals, roomId) ==
    IF deals = <<>> THEN <<>>
    ELSE IF Head(deals).room = roomId
      THEN <<Head(deals)>> \o roomDeals(Tail(deals), roomId)
      ELSE roomDeals(Tail(deals), roomId)

\* roomDeals.filter(deal => the overlap expression)
RECURSIVE overlapping(_, _, _)
overlapping(deals, checkInDate, checkOutDate) ==
    IF deals = <<>> THEN <<>>
    ELSE IF Overlap(checkInDate, checkOutDate,
                    NewDate(Head(deals), "UF_CRM_1749509439624"),
                    NewDate(Head(deals), "UF_CRM_1749787453685"))
      THEN <<Head(deals)>> \o overlapping(Tail(deals), checkInDate, checkOutDate)
      ELSE overlapping(Tail(deals), checkInDate, checkOutDate)

getOccupiedDates(roomId, roomType, checkIn, checkOut, resp, deals) ==
    IF roomId = NoRoom \/ roomType = NoType \/ checkIn = NoDate \/ checkOut = NoDate
      THEN Thrown("Missing required parameters", <<>>, <<>>)
    ELSE
      LET checkInDate == ParseDate(checkIn)
          checkOutDate == ParseDate(checkOut)
          month == GetMonth(checkInDate)
          dealsData == getDealsByMonth(month, roomType, resp, deals)
      IN IF ~ dealsData.ok
           THEN Thrown(dealsData.error, <<month>>, <<"BitrixClient.getDealsByMonth">>)
         ELSE IF roomType \notin DOMAIN dealsData.value
           THEN Returned(<<>>, <<month>>)
         ELSE Returned(
                overlapping(roomDeals(dealsData.value[roomType].deals, roomId),
                            checkInDate, checkOutDate),
                <<month>>)

\* while (currentDate <= checkOutDate) { months.push(...); setMonth(+1) }
RECURSIVE Months(_, _)
Months(currentDate, checkOutDate) ==
    IF currentDate <= checkOutDate
      THEN <<GetMonth(currentDate)>>
             \o Months(currentDate + MonthLen * HoursPerDay, checkOutDate)
      ELSE <<>>

\* for (const {year, month} of months) occupiedDates.push(...await getOccupiedDates(...))
RECURSIVE Gather(_, _, _, _, _, _, _, _)
Gather(months, n, roomId, roomType, checkIn, checkOut, resp, deals) ==
    IF months = <<>> THEN Returned(<<>>, <<>>)
    ELSE
      LET first == getOccupiedDates(roomId, roomType, checkIn, checkOut, Answer(resp, n), deals)
          rest == Gather(Tail(months), n + 1, roomId, roomType, checkIn, checkOut, resp, deals)
      IN IF first.kind = "error" THEN first
         ELSE IF rest.kind = "error"
           THEN [rest EXCEPT !.fetches = first.fetches \o rest.fetches]
         ELSE Returned(first.value \o rest.value, first.fetches \o rest.fetches)

\* The number of nights with the day of check-out counted in.
ceilInclusive(a, b) == (a \div b) + 1

ceil(a, b) == (a + b - 1) \div b

\* some(booking => currentDate >= new Date(booking.checkIn) &&
\*                 currentDate < new Date(booking.checkOut))
isOccupied(currentDate, occupiedDates) ==
    \E i \in 1..Len(occupiedDates) :
        /\ Le(NewDate(occupiedDates[i], "checkIn"), currentDate)
        /\ Lt(currentDate, NewDate(occupiedDates[i], "checkOut"))

dailyPrice(roomConfig, occupied) ==
    IF occupied
      THEN (roomConfig.basePrice * roomConfig.occupancyMultiplier) \div 10
      ELSE roomConfig.basePrice

RECURSIVE totalPrice(_, _, _, _, _)
totalPrice(i, nights, checkInDate, roomConfig, occupiedDates) ==
    IF i < nights
      THEN dailyPrice(roomConfig, isOccupied(checkInDate + i * HoursPerDay, occupiedDates))
             + totalPrice(i + 1, nights, checkInDate, roomConfig, occupiedDates)
      ELSE 0

Failed(thrown) == [thrown EXCEPT !.wrapper = "Failed to calculate price: "]

\* The checks without the comparison of the two dates.
validationWithoutOrder(roomType, checkIn, checkOut) ==
    IF roomType = NoType \/ roomType \notin DOMAIN roomTypes
      THEN "Invalid room type"
    ELSE IF checkIn = NoDate \/ checkOut = NoDate
      THEN "Check-in and check-out dates are required"
    ELSE ""

\* The checks calculatePrice makes before it fetches: the message of the
\* error it throws, "" when the arguments pass.
validation(roomType, checkIn, checkOut) ==
    IF roomType = NoType \/ roomType \notin DOMAIN roomTypes
      THEN "Invalid room type"
    ELSE IF checkIn = NoDate \/ checkOut = NoDate
      THEN "Check-in and check-out dates are required"
    ELSE IF ParseDate(checkIn) >= ParseDate(checkOut)
      THEN "Check-out date must be after check-in date"
    ELSE ""

calculatePrice(roomId, roomType, checkIn, checkOut, resp, deals) ==
    IF validation(roomType, checkIn, checkOut) # ""
      THEN Failed(Thrown(validation(roomType, checkIn, checkOut), <<>>, <<>>))
    ELSE
      LET checkInDate == ParseDate(checkIn)
          checkOutDate == ParseDate(checkOut)
          roomConfig == roomTypes[roomType]
          gathered == Gather(Months(checkInDate, checkOutDate), 1,
                             roomId, roomType, checkIn, checkOut, resp, deals)
          nights == ceil(checkOutDate - checkInDate, HoursPerDay)
      IN IF gathered.kind = "error" THEN Failed(gathered)
         ELSE Returned(totalPrice(0, nights, checkInDate, roomConfig, gathered.value),
                       gathered.fetches)

\* occupiedDates with each entry put in front of the earlier ones.
RECURSIVE occupiedDatesNewestFirst(_, _, _)
occupiedDatesNewestFirst(id, categoryDeals, roomsList) ==
    IF categoryDeals = <<>> THEN <<>>
    ELSE
      LET deal == Head(categoryDeals)
          rest == occupiedDatesNewestFirst(id, Tail(categoryDeals), roomsList)
      IN IF deal.UF_CRM_1749509439624 = NoDate \/ deal.UF_CRM_1749787453685 = NoDate
           THEN rest
         ELSE IF deal.room # NoRoom /\ deal.room \in DOMAIN roomsList /\ deal.room = id
           THEN rest \o <<[deal_id |-> deal.ID,
                           checkIn |-> deal.UF_CRM_1749509439624,
                           checkOut |-> deal.UF_CRM_1749787453685,
                           comments |-> deal.COMMENTS]>>
         ELSE rest

\* roomsInfo[roomId].occupiedDates after categoryDeals.forEach
RECURSIVE occupiedDates(_, _, _)
occupiedDates(id, categoryDeals, roomsList) ==
    IF categoryDeals = <<>> THEN <<>>
    ELSE
      LET deal == Head(categoryDeals)
          rest == occupiedDates(id, Tail(categoryDeals), roomsList)
      IN IF deal.UF_CRM_1749509439624 = NoDate \/ deal.UF_CRM_1749787453685 = NoDate
           THEN rest
         ELSE IF deal.room # NoRoom /\ deal.room \in DOMAIN roomsList /\ deal.room = id
           THEN <<[deal_id |-> deal.ID,
                   checkIn |-> deal.UF_CRM_1749509439624,
                   checkOut |-> deal.UF_CRM_1749787453685,
                   comments |-> deal.COMMENTS]>> \o rest
         ELSE rest

getRoomsInfo(month, categoryField, resp, deals, list) ==
    LET roomsList == getRoomsFromFields(categoryField, list)
        fetched == getDealsByMonth(month, categoryField, resp, deals)
    IN IF ~ roomsList.ok
         THEN Thrown(roomsList.error, <<>>,
                     <<"BitrixClient.getRoomsFromFields", "RoomService.getRoomsInfo">>)
       ELSE IF ~ fetched.ok
         THEN Thrown(fetched.error, <<month>>,
                     <<"BitrixClient.getDealsByMonth", "RoomService.getRoomsInfo">>)
       ELSE IF categoryField \notin DOMAIN fetched.value
         THEN Thrown("Invalid deals response or category not found", <<month>>,
                     <<"RoomService.getRoomsInfo">>)
       ELSE
         LET ids == ObjectKeys(roomsList.rooms)
         IN Returned([i \in 1..Len(ids) |->
                        [id |-> ids[i],
                         number |-> roomsList.rooms[ids[i]],
                         categoryField |-> categoryField,
                         occupiedDates |-> occupiedDates(ids[i],
                             fetched.value[categoryField].deals, roomsList.rooms)]],
                     <<month>>)

\* ---- inputs ----
\* Enumerations the room-enumeration collaborator may answer with.
RoomLists == {<<1, 2, 3>>, <<3, 1, 2>>, <<2, 1>>}
Rooms == UNION {{l[i] : i \in 1..Len(l)} : l \in RoomLists}
NoList == <<>>

\* Date ranges of at most MaxStay days inside the calendar.
Ranges == {<<a, b>> \in Days \X Days : a < b /\ b - a <= MaxStay}

\* A deal of the CRM: the room is in the field of the deal's own category.
Deal(id, cat, room, dates, comments) ==
    [ID |-> id,
     UF_CRM_1749509439624 |-> dates[1],
     UF_CRM_1749787453685 |-> dates[2],
     STD |-> IF cat = "STD" THEN room ELSE NoRoom,
     LUX |-> IF cat = "LUX" THEN room ELSE NoRoom,
     COMMENTS |-> comments]

\* The deals that may appear in the CRM: a standard room booked for a range,
\* a deal of the other category, and deals that lack one of the two dates.
NewDeals(id, remarks, nights) ==
    {Deal(id, "STD", room, dates, c) :
        room \in Rooms, dates \in {r \in Ranges : r[2] - r[1] <= nights}, c \in remarks}
      \cup {Deal(id, "LUX", 1, <<MonthLen + 1, MonthLen + 2>>, ""),
            Deal(id, "STD", 1, <<NoDate, MonthLen + 1>>, ""),
            Deal(id, "STD", 1, <<MonthLen, NoDate>>, "")}

Idle == [op |-> "none"]
NoOutcome == [kind |-> "none"]

\* The clients that send a booking/create request, and a client that has
\* sent none.
Clients == {1, 2}
NoRequest == [pc |-> "idle"]

Init ==
    /\ crm = <<>>
    /\ call = Idle
    /\ response = Ok
    /\ outcome = NoOutcome
    /\ fetches = <<>>
    /\ logs = <<>>
    /\ requests = [r \in Clients |-> NoRequest]
    /\ contacts = <<>>

\* The place of a deal in the order in which AddDeal lets deals appear.
Rank(deal) ==
    ((deal.STD * 10 + deal.LUX) * 100 + deal.UF_CRM_1749509439624) * 100
        + deal.UF_CRM_1749787453685

\* A reservation appears in the CRM (crm.deal.add by any client of the CRM).
Added(deal) ==
    /\ call = Idle
    /\ Len(crm) < MaxDeals
    /\ crm' = Append(crm, deal)
    /\ UNCHANGED <<call, response, outcome, fetches, logs, requests, contacts>>

\* The operations that do not depend on the order of the deals are checked
\* with one order of each collection of deals.
AddDeal ==
    \E deal \in NewDeals(Len(crm) + 1, {""}, MaxStay) :
        /\ crm # <<>> => Rank(crm[Len(crm)]) <= Rank(deal)
        /\ Added(deal)

\* Deals of one night, with and without comments, in any order.
AddDealWithComments ==
    \E deal \in NewDeals(Len(crm) + 1, {"", "late arrival"}, 1) : Added(deal)

Finish(c, resp, r) ==
    /\ call' = c
    /\ response' = resp
    /\ outcome' = [kind |-> r.kind, wrapper |-> r.wrapper, error |-> r.error, value |-> r.value]
    /\ fetches' = r.fetches
    /\ logs' = r.logs
    /\ UNCHANGED <<crm, requests, contacts>>

\* The caller has consumed the outcome of the invocation.
Respond ==
    /\ call # Idle
    /\ call' = Idle
    /\ response' = Ok
    /\ outcome' = NoOutcome
    /\ fetches' = <<>>
    /\ logs' = <<>>
    /\ UNCHANGED <<crm, requests, contacts>>

\* Requested dates: any two days at most n apart, in either order.
StaysUpTo(n) == {<<a, b>> \in Days \X Days : b - a <= n /\ a - b <= 1}
Stays == StaysUpTo(MaxStay)

CheckAvailability ==
    /\ call = Idle
    /\ \E roomId \in Rooms \cup {NoRoom}, stay \in Stays, list \in RoomLists :
        /\ roomId # NoRoom => list = <<1, 2, 3>>
        /\ Finish([op |-> "checkAvailability", roomId |-> roomId, roomType |-> "STD",
                   checkIn |-> stay[1], checkOut |-> stay[2],
                   LIST |-> IF roomId = NoRoom THEN list ELSE NoList],
                  Ok,
                  checkAvailability(roomId, "STD", stay[1], stay[2], Ok, crm, list))

NextAvail == AddDeal \/ CheckAvailability \/ Respond
SpecAvail == Init /\ [][NextAvail]_vars

Http(n) == [kind |-> "http", failed |-> {}, at |-> n]

\* The arguments that fail before the first fetch are tried with one answer;
\* the second fetch fails only where there is one.
CalculatePrice ==
    /\ call = Idle
    /\ \E roomId \in {1, NoRoom}, roomType \in {"STD", "LUX", "UNK"},
          stay \in StaysUpTo(MaxNights),
          resp \in {Ok, Http(1), Http(2)} :
        /\ validation(roomType, stay[1], stay[2]) # "" => roomId = 1 /\ resp = Ok
        /\ roomId = NoRoom => resp = Ok
        /\ resp = Http(2) => stay[2] - stay[1] >= MonthLen
        /\ Finish([op |-> "calculatePrice", roomId |-> roomId, roomType |-> roomType,
                   checkIn |-> stay[1], checkOut |-> stay[2]],
                  resp,
                  calculatePrice(roomId, roomType, stay[1], stay[2], resp, crm))

NextPrice == AddDeal \/ CalculatePrice \/ Respond
SpecPrice == Init /\ [][NextPrice]_vars

GetRoomsInfo ==
    /\ call = Idle
    /\ \E month \in RequestMonths, categoryField \in {"STD", "UNK"}, list \in RoomLists,
          resp \in {Ok, Http(1)} :
        /\ categoryField = "UNK" => resp = Ok
        /\ Finish([op |-> "getRoomsInfo", month |-> month, categoryField |-> categoryField,
                   LIST |-> list],
                  resp,
                  getRoomsInfo(month, categoryField, resp, crm, list))

NextRooms == AddDealWithComments \/ GetRoomsInfo \/ Respond
SpecRooms == Init /\ [][NextRooms]_vars

\* The answers of the CRM to a batch of the given sub-queries.
BatchAnswers(aliases) ==
    {[kind |-> k, failed |-> {}, at |-> 1] : k \in {"ok", "http", "error", "format"}}
      \cup {[kind |-> k, failed |-> f, at |-> 1] :
              k \in {"errList", "errMap"}, f \in (SUBSET aliases) \ {{}}}

GetDealsByMonth ==
    /\ call = Idle
    /\ \E month \in RequestMonths, categoryField \in {NoType, "STD"} :
        \E resp \in BatchAnswers(DOMAIN Commands(categoryField)) :
          LET r == getDealsByMonth(month, categoryField, resp, crm)
          IN Finish([op |-> "getDealsByMonth", month |-> month,
                     categoryField |-> categoryField],
                    resp,
                    IF r.ok THEN Returned(r.value, <<month>>)
                            ELSE Thrown(r.error, <<month>>, <<"BitrixClient.getDealsByMonth">>))

NextFetch == AddDeal \/ GetDealsByMonth \/ Respond
SpecFetch == Init /\ [][NextFetch]_vars

\* ---- the overlap test on its own ----
AllRanges == {<<a, b>> \in Days \X Days : a < b}

InitOverlap ==
    /\ crm = <<>>
    /\ \E a \in AllRanges, b \in AllRanges :
          call = [op |-> "overlap", aStart |-> a[1], aEnd |-> a[2],
                  bStart |-> b[1], bEnd |-> b[2]]
    /\ response = Ok
    /\ outcome = NoOutcome
    /\ fetches = <<>>
    /\ logs = <<>>
    /\ requests = [r \in Clients |-> NoRequest]
    /\ contacts = <<>>

\* The test applied to the request a and the deal b, and to b and a.
ApplyOverlap ==
    /\ call.op = "overlap"
    /\ outcome = NoOutcome
    /\ outcome' = [kind |-> "value", wrapper |-> "", error |-> "",
                   value |-> [ab |-> Overlap(ParseDate(call.aStart), ParseDate(call.aEnd),
                                             ParseDate(call.bStart), ParseDate(call.bEnd)),
                              ba |-> Overlap(ParseDate(call.bStart), ParseDate(call.bEnd),
                                             ParseDate(call.aStart), ParseDate(call.aEnd))]]
    /\ UNCHANGED <<crm, call, response, fetches, logs, requests, contacts>>

SpecOverlap == InitOverlap /\ [][ApplyOverlap]_vars

\* ---- POST booking/create (index.js) and BitrixClient.createBooking ----
NoContact == 0
NoPhone == 0
Phones == {1, 2}

\* createBooking that refuses a room that has an overlapping deal.
createBookingIfFree(bookingData, deals, list) ==
    LET roomsList == getRoomsFromFields(bookingData.roomType, list)
        free == \A i \in 1..Len(deals) :
                    (deals[i][bookingData.roomType] = bookingData.roomId)
                       => ~ Overlap(ParseDate(bookingData.checkIn),
                                    ParseDate(bookingData.checkOut),
                                    NewDate(deals[i], "UF_CRM_1749509439624"),
                                    NewDate(deals[i], "UF_CRM_1749787453685"))
    IN IF \/ bookingData.checkIn = NoDate \/ bookingData.checkOut = NoDate
          \/ bookingData.roomId = NoRoom \/ bookingData.contactId = NoContact
          \/ bookingData.roomType = NoType
         THEN [ok |-> FALSE, error |-> "Missing required booking data",
               deals |-> deals, data |-> 0]
       ELSE IF ~ roomsList.ok
         THEN [ok |-> FALSE, error |-> roomsList.error, deals |-> deals, data |-> 0]
       ELSE IF ~ free
         THEN [ok |-> FALSE, error |-> "Failed to create booking", deals |-> deals, data |-> 0]
       ELSE [ok |-> TRUE, error |-> "",
             deals |-> Append(deals,
                          Deal(Len(deals) + 1, bookingData.roomType, bookingData.roomId,
                               <<bookingData.checkIn, bookingData.checkOut>>,
                               bookingData.comments)),
             data |-> Len(deals) + 1]

\* The checks of the booking data, the room list read for the title, then
\* crm.deal.add: the deals of the CRM afterwards and the id of the new deal.
createBooking(bookingData, deals, list) ==
    LET roomsList == getRoomsFromFields(bookingData.roomType, list)
    IN IF \/ bookingData.checkIn = NoDate \/ bookingData.checkOut = NoDate
          \/ bookingData.roomId = NoRoom \/ bookingData.contactId = NoContact
          \/ bookingData.roomType = NoType
         THEN [ok |-> FALSE, error |-> "Missing required booking data",
               deals |-> deals, data |-> 0]
       ELSE IF ~ roomsList.ok
         THEN [ok |-> FALSE, error |-> roomsList.error, deals |-> deals, data |-> 0]
       ELSE [ok |-> TRUE, error |-> "",
             deals |-> Append(deals,
                          Deal(Len(deals) + 1, bookingData.roomType, bookingData.roomId,
                               <<bookingData.checkIn, bookingData.checkOut>>,
                               bookingData.comments)),
             data |-> Len(deals) + 1]

\* !isAvailable, isAvailable being the object checkAvailability returned: an
\* object is truthy whatever its fields.
Falsy(isAvailable) == FALSE

\* res.json(...) of the handler.
Json(status, message, bookingId, contactId) ==
    [status |-> status, message |-> message, bookingId |-> bookingId, contactId |-> contactId]

\* The requests of the clients: check-in on one of two days of month 1,
\* check-out a day earlier, the same day or a day later.
BookingStays == {s \in StaysUpTo(1) : s[1] \in {MonthLen - 2, MonthLen - 1}}

\* The handler up to its first await: the required fields.
Receive(r) ==
    /\ requests[r].pc = "idle"
    /\ \E roomId \in {1, 2, NoRoom}, stay \in BookingStays, contactPhone \in Phones :
        /\ roomId = NoRoom => (stay = <<MonthLen - 1, MonthLen>> /\ contactPhone = 1)
        /\ LET body == [roomId |-> roomId, roomType |-> "STD",
                        checkIn |-> stay[1], checkOut |-> stay[2],
                        contactPhone |-> contactPhone, comments |-> "",
                        isAvailable |-> [available |-> FALSE, roomId |-> NoRoom],
                        fetched |-> 0, contactId |-> NoContact, calls |-> <<>>]
           IN requests' = [requests EXCEPT ![r] =
                IF roomId = NoRoom \/ stay[1] = NoDate \/ stay[2] = NoDate
                     \/ contactPhone = NoPhone
                  THEN body @@ [pc |-> "done",
                                res |-> Json(FALSE, "required fields missing", 0, NoContact)]
                  ELSE body @@ [pc |-> "check", res |-> Json(FALSE, "", 0, NoContact)]]
    /\ UNCHANGED <<crm, call, response, outcome, fetches, logs, contacts>>

\* await roomService.checkAvailability(...); if (!isAvailable) return "occupied"
Check(r) ==
    /\ requests[r].pc = "check"
    /\ LET q == requests[r]
           a == checkAvailability(q.roomId, q.roomType, q.checkIn, q.checkOut, Ok, crm, NoList)
       IN requests' = [requests EXCEPT ![r] =
            IF a.kind = "error"
              THEN [q EXCEPT !.pc = "done", !.calls = Append(@, "getDealsByMonth"),
                             !.fetched = Len(crm),
                             !.res = Json(FALSE, a.error, 0, NoContact)]
            ELSE IF Falsy(a.value)
              THEN [q EXCEPT !.pc = "done", !.calls = Append(@, "getDealsByMonth"),
                             !.fetched = Len(crm), !.isAvailable = a.value,
                             !.res = Json(FALSE, "room is occupied", 0, NoContact)]
            ELSE [q EXCEPT !.pc = "contact", !.calls = Append(@, "getDealsByMonth"),
                           !.fetched = Len(crm), !.isAvailable = a.value]]
    /\ UNCHANGED <<crm, call, response, outcome, fetches, logs, contacts>>

\* crm.contact.list with filter PHONE: the first contact found, if any.
FindContact(r) ==
    /\ requests[r].pc = "contact"
    /\ LET q == requests[r]
           found == {i \in 1..Len(contacts) : contacts[i] = q.contactPhone}
       IN requests' = [requests EXCEPT ![r] =
            IF found # {}
              THEN [q EXCEPT !.pc = "create", !.calls = Append(@, "crm.contact.list"),
                             !.contactId = CHOOSE i \in found : \A j \in found : i <= j]
              ELSE [q EXCEPT !.pc = "addContact", !.calls = Append(@, "crm.contact.list")]]
    /\ UNCHANGED <<crm, call, response, outcome, fetches, logs, contacts>>

\* crm.contact.add
AddContact(r) ==
    /\ requests[r].pc = "addContact"
    /\ contacts' = Append(contacts, requests[r].contactPhone)
    /\ requests' = [requests EXCEPT ![r] =
            [@ EXCEPT !.pc = "create", !.calls = Append(@, "crm.contact.add"),
                      !.contactId = Len(contacts) + 1]]
    /\ UNCHANGED <<crm, call, response, outcome, fetches, logs>>

\* await bitrixClient.createBooking(...) and the answer of the handler; an
\* error thrown is answered by the catch with its message.
CreateBooking(r) ==
    /\ requests[r].pc = "create"
    /\ LET q == requests[r]
           b == createBooking(q, crm, <<1, 2, 3>>)
       IN /\ crm' = b.deals
          /\ requests' = [requests EXCEPT ![r] =
                IF b.ok
                  THEN [q EXCEPT !.pc = "done", !.calls = Append(@, "crm.deal.add"),
                                 !.res = Json(TRUE, "booking created", b.data, q.contactId)]
                  ELSE [q EXCEPT !.pc = "done",
                                 !.res = Json(FALSE, b.error, 0, NoContact)]]
    /\ UNCHANGED <<call, response, outcome, fetches, logs, contacts>>

\* Two clients, each sending one request; the steps of the two handlers
\* interleave at their awaits.
NextBooking ==
    \E r \in Clients :
        Receive(r) \/ Check(r) \/ FindContact(r) \/ AddContact(r) \/ CreateBooking(r)
SpecBooking == Init /\ [][NextBooking]_vars

\* ---- properties of checkAvailability (SpecAvail) ----
\* The days of the half-open range [s, e).
DaysOf(s, e) == s..(e - 1)
Intersect(s1, e1, s2, e2) == DaysOf(s1, e1) \cap DaysOf(s2, e2) # {}
HasDates(deal) == deal.UF_CRM_1749509439624 # NoDate /\ deal.UF_CRM_1749787453685 # NoDate

AvailabilityResult == call.op = "checkAvailability" /\ outcome.kind = "value"

\* The deals of the CRM that the request's fetch returned: those in the filter
\* of the month of checkIn.
FetchedFor(checkIn) ==
    {i \in 1..Len(crm) : InFilter(crm[i], GetMonth(ParseDate(checkIn)))}

\* A reservation of standard room r among the deals `among` shares a day with
\* the requested range.
Reserved(r, among) ==
    \E i \in among :
        /\ HasDates(crm[i])
        /\ crm[i].STD = r
        /\ Intersect(call.checkIn, call.checkOut,
                     crm[i].UF_CRM_1749509439624, crm[i].UF_CRM_1749787453685)

\* C1: when checkAvailability answers {available: true, roomId: r}, no
\* reservation the CRM holds for room r shares a day with [checkIn, checkOut).
C1_AvailableMeansNoReservation ==
    (AvailabilityResult /\ outcome.value.available)
        => ~ Reserved(outcome.value.roomId, 1..Len(crm))

\* C3: checkAvailability with checkIn >= checkOut fails; it never returns an
\* AvailabilityResult.
C3_RejectsEmptyRange ==
    (call.op = "checkAvailability" /\ call.checkIn >= call.checkOut)
        => outcome.kind = "error"

\* C4: without roomId, the room returned is the first room, in the order of
\* the LIST items, that has no overlapping fetched reservation: every room
\* listed before it has one.
C4_FirstInListOrder ==
    (AvailabilityResult /\ call.roomId = NoRoom /\ call.checkIn < call.checkOut
       /\ outcome.value.available)
        => \E k \in 1..Len(call.LIST) :
              /\ call.LIST[k] = outcome.value.roomId
              /\ \A j \in 1..(k - 1) : Reserved(call.LIST[j], FetchedFor(call.checkIn))

Candidates ==
    IF call.roomId # NoRoom THEN {call.roomId}
    ELSE {call.LIST[k] : k \in 1..Len(call.LIST)}

\* C5: for a request with checkIn < checkOut, an explicit roomId with no
\* overlapping fetched reservation is answered {available: true, roomId} with
\* that roomId, and the answer is {available: false}, without a roomId,
\* exactly when every candidate room has an overlapping fetched reservation.
C5_ResultFollowsFetchedReservations ==
    (AvailabilityResult /\ call.checkIn < call.checkOut)
        => /\ (call.roomId # NoRoom /\ ~ Reserved(call.roomId, FetchedFor(call.checkIn)))
                => outcome.value = [available |-> TRUE, roomId |-> call.roomId]
           /\ (~ outcome.value.available)
                <=> (\A r \in Candidates : Reserved(r, FetchedFor(call.checkIn)))
           /\ (~ outcome.value.available) => outcome.value.roomId = NoRoom
           /\ outcome.value.available => outcome.value.roomId \in Candidates

\* An explicit room whose month holds only another room's overlapping
\* reservation is answered available.
C5_WitnessFreeBesideBooked ==
    /\ AvailabilityResult
    /\ call.checkIn < call.checkOut
    /\ call.roomId # NoRoom
    /\ outcome.value.available
    /\ \E r \in Rooms \ {call.roomId} : Reserved(r, FetchedFor(call.checkIn))

\* ---- properties of the overlap test (SpecOverlap) ----
OverlapApplied == call.op = "overlap" /\ outcome.kind = "value"

\* C2: for two ranges that each start before they end, the overlap test is
\* true iff s1 < e2 and s2 < e1, which is iff the ranges share a day; it gives
\* the same answer with the ranges exchanged, and back-to-back ranges do not
\* overlap.
C2_OverlapIsHalfOpen ==
    OverlapApplied
        => /\ outcome.value.ab <=> (call.aStart < call.bEnd /\ call.bStart < call.aEnd)
           /\ outcome.value.ab <=> Intersect(call.aStart, call.aEnd, call.bStart, call.bEnd)
           /\ outcome.value.ab = outcome.value.ba
           /\ (call.aStart = call.bEnd \/ call.aEnd = call.bStart) => ~ outcome.value.ab

\* A stay that checks in on the day a reservation checks out.
C2_WitnessBackToBack ==
    OverlapApplied /\ call.aStart = call.bEnd /\ ~ outcome.value.ab /\ ~ outcome.value.ba

\* ---- properties of calculatePrice (SpecPrice) ----
PriceResult == call.op = "calculatePrice" /\ outcome.kind = "value"

\* The reservations gathered for the priced room: the fetched deals of the
\* room that share a day with the stay.
Gathered ==
    {i \in FetchedFor(call.checkIn) :
        /\ HasDates(crm[i])
        /\ crm[i][call.roomType] = call.roomId
        /\ Intersect(call.checkIn, call.checkOut,
                     crm[i].UF_CRM_1749509439624, crm[i].UF_CRM_1749787453685)}

\* The nights of the stay that fall inside a gathered reservation.
OccupiedNights ==
    {d \in DaysOf(call.checkIn, call.checkOut) :
        \E i \in Gathered :
            d \in DaysOf(crm[i].UF_CRM_1749509439624, crm[i].UF_CRM_1749787453685)}

Nights == call.checkOut - call.checkIn
OccupiedPrice(roomConfig) == (roomConfig.basePrice * roomConfig.occupancyMultiplier) \div 10

\* C6: a night inside a gathered reservation of the priced room costs
\* basePrice * occupancyMultiplier and every other night basePrice, so k >= 1
\* occupied nights make the total more than nights * basePrice.
C6_OccupiedNightsCostMore ==
    PriceResult
        => LET k == Cardinality(OccupiedNights)
               roomConfig == roomTypes[call.roomType]
           IN outcome.value
                = (Nights - k) * roomConfig.basePrice + k * OccupiedPrice(roomConfig)

\* C7: a known room type, a roomId, checkIn < checkOut, an answered fetch and
\* no overlapping reservation of the room: the total is nights * basePrice.
C7_FreeStayCostsBasePrice ==
    (/\ call.op = "calculatePrice"
     /\ call.roomType \in DOMAIN roomTypes
     /\ call.roomId # NoRoom
     /\ call.checkIn < call.checkOut
     /\ response.kind = "ok"
     /\ Gathered = {})
        => /\ outcome.kind = "value"
           /\ outcome.value = Nights * roomTypes[call.roomType].basePrice

\* Three nights in a standard room whose fetched reservation ends on the day
\* of check-in: 15000.
C7_WitnessThreeNights ==
    /\ PriceResult
    /\ call.roomType = "STD"
    /\ Nights = 3
    /\ Gathered = {}
    /\ \E i \in FetchedFor(call.checkIn) : HasDates(crm[i]) /\ crm[i].STD = call.roomId
    /\ outcome.value = 15000

\* C8: with a room type that is not in the catalog, or checkIn >= checkOut,
\* calculatePrice fails, and no reservation fetch has been issued.
C8_InvalidArgumentsFailBeforeFetch ==
    (/\ call.op = "calculatePrice"
     /\ (call.roomType \notin DOMAIN roomTypes \/ call.checkIn >= call.checkOut))
        => outcome.kind = "error" /\ fetches = <<>>

\* A known room type with check-out on the day of check-in, the CRM holding
\* reservations.
C8_WitnessEmptyStay ==
    /\ call.op = "calculatePrice"
    /\ call.roomType \in DOMAIN roomTypes
    /\ call.checkIn = call.checkOut
    /\ crm # <<>>
    /\ outcome.kind = "error"
    /\ outcome.error = "Check-out date must be after check-in date"
    /\ fetches = <<>>

\* C11: roomId is optional for calculatePrice: with a room type of the
\* catalog, checkIn < checkOut and no roomId, calculatePrice returns a total.
C11_RoomIdIsOptional ==
    (/\ call.op = "calculatePrice"
     /\ call.roomType \in DOMAIN roomTypes
     /\ call.checkIn # NoDate
     /\ call.checkIn < call.checkOut
     /\ call.roomId = NoRoom)
        => outcome.kind = "value"

\* C12: when calculatePrice has priced the nights, getDealsByMonth has been
\* asked for the month of every night of [checkIn, checkOut).
C12_FetchesEveryTouchedMonth ==
    PriceResult
        => \A d \in DaysOf(call.checkIn, call.checkOut) :
              \E k \in 1..Len(fetches) : fetches[k] = MonthOfDay(d)

\* The origin an operation of RoomService gives to logMessage.
Origin ==
    [checkAvailability |-> "RoomService.checkAvailability",
     calculatePrice |-> "RoomService.calculatePrice",
     getRoomsInfo |-> "RoomService.getRoomsInfo"]

\* The error getDealsByMonth throws for the answer resp.
RepositoryError(resp) == getDealsByMonth(1, "STD", resp, <<>>).error

\* C14: when the repository call fails inside checkAvailability,
\* calculatePrice or getRoomsInfo, the operation passes the failure to
\* logMessage, throws the error it received, neither new nor wrapped, and
\* issues no repository call after the failed one.
C14_FailureLoggedAndRethrownUnchanged ==
    (call.op \in DOMAIN Origin /\ response.kind # "ok")
        => /\ outcome.kind = "error"
           /\ outcome.wrapper = ""
           /\ outcome.error = RepositoryError(response)
           /\ \E k \in 1..Len(logs) : logs[k] = Origin[call.op]
           /\ Len(fetches) = response.at

\* ---- properties of getDealsByMonth (SpecFetch) ----
\* C9: when the batch response reports an error for a sub-query, as a list or
\* as a map keyed by alias, getDealsByMonth fails; it returns no result map.
C9_SubQueryErrorFailsTheFetch ==
    (call.op = "getDealsByMonth" /\ response.failed # {}) => outcome.kind = "error"

\* C13: getDealsByMonth makes one round-trip, with one sub-query when a room
\* type is given and one per room type of the catalog otherwise; the keys of
\* the map it returns are exactly the field codes queried, never an alias, and
\* each key holds the deals of its own sub-query.
C13_KeysAreQueriedFieldCodes ==
    (call.op = "getDealsByMonth" /\ outcome.kind = "value")
        => LET cmds == Commands(call.categoryField)
           IN /\ Len(fetches) = 1
              /\ Cardinality(DOMAIN cmds)
                   = IF call.categoryField # NoType THEN 1
                     ELSE Cardinality(DOMAIN roomTypes)
              /\ DOMAIN outcome.value = {cmds[a] : a \in DOMAIN cmds}
              /\ DOMAIN outcome.value \cap {"category", "standard", "lux"} = {}
              /\ \A a \in DOMAIN cmds :
                    outcome.value[cmds[a]].deals = DealList(crm, call.month, cmds[a])

\* ---- properties of getRoomsInfo (SpecRooms) ----
RoomsResult == call.op = "getRoomsInfo" /\ outcome.kind = "value"

\* The fetched deals that belong in a calendar: both dates, a room of the
\* enumeration.
Listed(i) ==
    /\ HasDates(crm[i])
    /\ \E k \in 1..Len(call.LIST) : call.LIST[k] = crm[i][call.categoryField]

FetchedIn(month) == {i \in 1..Len(crm) : InFilter(crm[i], month)}

\* The places <<entry, position>> of the result where a deal appears.
Places(id) ==
    {p \in (1..Len(outcome.value)) \X (1..MaxDeals + 1) :
        /\ p[2] <= Len(outcome.value[p[1]].occupiedDates)
        /\ outcome.value[p[1]].occupiedDates[p[2]].deal_id = id}

\* C10: one calendar entry per room of the enumeration; every fetched
\* reservation with both dates and a room of the enumeration appears exactly
\* once, in its room's entry, with its dates and comments, in fetch order;
\* nothing else appears.
C10_OneEntryPerRoomAllReservations ==
    RoomsResult
        => /\ Len(outcome.value) = Len(call.LIST)
           /\ \A k \in 1..Len(call.LIST) :
                 Cardinality({e \in 1..Len(outcome.value) :
                                 outcome.value[e].id = call.LIST[k]}) = 1
           /\ \A i \in FetchedIn(call.month) :
                 IF Listed(i)
                   THEN /\ Cardinality(Places(crm[i].ID)) = 1
                        /\ \A p \in Places(crm[i].ID) :
                              /\ outcome.value[p[1]].id = crm[i][call.categoryField]
                              /\ outcome.value[p[1]].occupiedDates[p[2]]
                                   = [deal_id |-> crm[i].ID,
                                      checkIn |-> crm[i].UF_CRM_1749509439624,
                                      checkOut |-> crm[i].UF_CRM_1749787453685,
                                      comments |-> crm[i].COMMENTS]
                   ELSE Places(crm[i].ID) = {}
           /\ \A i \in 1..Len(crm) : i \notin FetchedIn(call.month) => Places(crm[i].ID) = {}
           /\ \A i, j \in FetchedIn(call.month) :
                 (i < j /\ Listed(i) /\ Listed(j))
                    => \A p \in Places(crm[i].ID), q \in Places(crm[j].ID) :
                          p[1] = q[1] => p[2] < q[2]

\* A calendar with an entry that has no reservation and an entry of two
\* reservations, the second with comments and an earlier check-in than the
\* first.
C10_WitnessCalendar ==
    /\ RoomsResult
    /\ \E e \in 1..Len(outcome.value) : outcome.value[e].occupiedDates = <<>>
    /\ \E e \in 1..Len(outcome.value) :
          LET occ == outcome.value[e].occupiedDates
          IN /\ Len(occ) = 2
             /\ occ[2].comments = "late arrival"
             /\ occ[2].checkIn < occ[1].checkIn

\* ---- properties of booking/create (SpecBooking) ----
\* The request of client r has its answer from checkAvailability.
Checked(r) == requests[r].pc \notin {"idle", "check"} /\ requests[r].calls # <<>>

Issued(r, method) ==
    /\ requests[r].pc # "idle"
    /\ \E k \in 1..Len(requests[r].calls) : requests[r].calls[k] = method

\* The two requests are for the same room and their ranges share a day.
SameRoomAndDay(r, s) ==
    /\ requests[r].roomId = requests[s].roomId
    /\ Intersect(requests[r].checkIn, requests[r].checkOut,
                 requests[s].checkIn, requests[s].checkOut)

\* Both requests were answered {available: true} from the same deals of the
\* CRM: each fetch came before the create-record call of the other request.
BothSawAvailable(r, s) ==
    /\ r # s
    /\ Checked(r) /\ Checked(s)
    /\ requests[r].isAvailable.available /\ requests[s].isAvailable.available
    /\ requests[r].fetched = requests[s].fetched

\* The deal the CRM holds under the booking id answered to client r is the
\* reservation r asked for.
Booked(r) ==
    /\ requests[r].res.status
    /\ requests[r].res.bookingId \in 1..Len(crm)
    /\ crm[requests[r].res.bookingId].STD = requests[r].roomId
    /\ crm[requests[r].res.bookingId].UF_CRM_1749509439624 = requests[r].checkIn
    /\ crm[requests[r].res.bookingId].UF_CRM_1749787453685 = requests[r].checkOut

\* C15: nothing serializes two concurrent requests for the same room and
\* overlapping ranges: when both had their availability fetch before either
\* issued its create-record call and both saw the room available, both create
\* their booking, and the CRM holds two overlapping reservations of the room.
C15_ConcurrentRequestsBothBook ==
    \A r, s \in Clients :
        (/\ BothSawAvailable(r, s)
         /\ SameRoomAndDay(r, s)
         /\ requests[r].pc = "done" /\ requests[s].pc = "done")
            => /\ Booked(r) /\ Booked(s)
               /\ requests[r].res.bookingId # requests[s].res.bookingId

\* Both requests are answered with a booking, for room 1 and the same night,
\* and neither fetch saw a deal.
C15_WitnessDoubleBooking ==
    \E r, s \in Clients :
        /\ BothSawAvailable(r, s)
        /\ SameRoomAndDay(r, s)
        /\ requests[r].fetched = 0
        /\ requests[r].pc = "done" /\ requests[s].pc = "done"
        /\ Booked(r) /\ Booked(s)
        /\ Len(crm) = 2
        /\ crm[1].STD = crm[2].STD
        /\ Intersect(crm[1].UF_CRM_1749509439624, crm[1].UF_CRM_1749787453685,
                     crm[2].UF_CRM_1749509439624, crm[2].UF_CRM_1749787453685)

\* C16: the create-record call is issued only after checkAvailability
\* answered available: true; when it answers {available: false} the handler
\* answers that the room is occupied, and no contact lookup, contact creation
\* or booking creation follows.
C16_CreateOnlyWhenAvailable ==
    \A r \in Clients :
        /\ Issued(r, "crm.deal.add")
              => (Checked(r) /\ requests[r].isAvailable.available)
        /\ (Checked(r) /\ ~ requests[r].isAvailable.available)
              => /\ requests[r].pc = "done"
                 /\ requests[r].res = Json(FALSE, "room is occupied", 0, NoContact)
                 /\ requests[r].calls = <<"getDealsByMonth">>

====
